---- MODULE Spec2Model ----
(***************************************************************************)
(* State-machine model of src/App.tsx (the App component of the dosirak    *)
(* storefront): identity session, catalog feed, cart, checkout, the        *)
(* notification slot and its timer, and the administrator console (order   *)
(* feed, menu management, order status, revenue chart), together with the  *)
(* remote store and the identity provider as far as the App's handlers     *)
(* talk to them.  Spec is the storefront; ConsoleSpec, CheckoutSpec,       *)
(* LiveSpec, TimedSpec, ChartSpec and CartSpec run the same actions over   *)
(* the part of the application each one is about.                          *)
(***************************************************************************)
EXTENDS Integers, Sequences, FiniteSets, TLC

VARIABLES
    user,            \* App state `user`: UserProfile | null
    activePage,      \* App state `activePage`
    menus,           \* App state `menus`: the catalog feed's last snapshot
    cart,            \* App state `cart`: CartItem[]
    isCartOpen,      \* App state `isCartOpen`
    isCheckoutOpen,  \* App state `isCheckoutOpen`
    toast,           \* App state `toast`: {msg, type} | null
    isLoggingIn,     \* App state `isLoggingIn`
    address,         \* CheckoutModal state `address`
    contact,         \* CheckoutModal state `contact`
    deliveryDate,    \* CheckoutModal state `deliveryDate`
    deliveryTime,    \* CheckoutModal state `deliveryTime`
    fbUser,          \* identity provider: the session's current account
    authEvents,      \* identity provider: session changes not yet delivered to the listener
    signInPending,   \* identity provider: number of signInWithPopup calls not yet resolved
    dbMenus,         \* remote store: documents of collection 'menus'
    orderWrites,     \* remote store: addDoc('orders') calls not yet resolved
    dbOrders,        \* remote store: documents of collection 'orders'
    adds,            \* history: per menu id, add calls since the id was absent (-1: not tracked)
    lastCall,        \* history: the last cart operation applied by the cart-algebra specification
    steps,           \* history: number of handler and callback invocations so far
    orders,          \* App state `orders`: the order feed's last snapshot
    ordersSub,       \* whether the onSnapshot listener of the 'orders' query is registered
    adminTab,        \* AdminDashboard state `activeTab`
    menuWrites,      \* remote store: addDoc('menus') and deleteDoc calls not yet resolved
    statusWrites,    \* remote store: updateDoc('orders') calls not yet resolved
    toastTimer,      \* Toast's timer: seconds until it calls onClose (NoTimer: none is set)
    toastShown,      \* history: seconds since the setToast call that raised the displayed toast
    limit            \* history: the number of invocations the behaviour is followed for

appVars == <<user, activePage, menus, cart, isCartOpen, isCheckoutOpen, toast, isLoggingIn>>
formVars == <<address, contact, deliveryDate, deliveryTime>>
authVars == <<fbUser, authEvents, signInPending>>
storeVars == <<dbMenus, orderWrites, dbOrders>>
histVars == <<adds, lastCall>>
adminVars == <<orders, ordersSub, adminTab>>
writeVars == <<menuWrites, statusWrites>>
timerVars == <<toastTimer, toastShown>>
vars == <<appVars, formVars, authVars, storeVars, histVars, steps,
          adminVars, writeVars, timerVars, limit>>

----------------------------------------------------------------------------
(* Bounds of the model *)

MaxSteps == 11       \* handler and callback invocations in one behaviour of the application
MaxCalls == 4        \* cart operations in one behaviour of the cart-algebra specification
MaxDelta == 2        \* magnitude of the deltas given to updateQuantity in the cart-algebra specification
MaxConsoleSteps == 9 \* handler and callback invocations in one behaviour of the admin console
MaxChartOrders == 3  \* orders in the list given to the revenue chart
MaxTime == 15        \* latest creation time of an order given to the revenue chart
DayLength == 2       \* readings of the clock per calendar day
MaxCheckoutSteps == 12 \* handler and callback invocations in one behaviour of the checkout flow
MaxLiveSteps == 7    \* handler and callback invocations in one behaviour of the identity session
MaxTimedSteps == 7   \* invocations and passages of time in one behaviour of the notification timer
MaxPending == 1      \* calls of the admin console to the store of one kind (menu, status) awaiting their result

----------------------------------------------------------------------------
(* Program constants and value domains *)

ADMIN_EMAIL == "acehwan69@gmail.com"

\* JavaScript null for `user`, firebaseUser and firebaseUser.email
NullEmail == "null"
NoUser == [uid |-> "null", email |-> NullEmail, isAdmin |-> FALSE]
NoAccount == [uid |-> "null", email |-> NullEmail]

\* Accounts the identity provider can sign in: the administrator, an account
\* whose address differs from the administrator's only in letter case, and an
\* account without email.
Accounts ==
    { [uid |-> "u1", email |-> "acehwan69@gmail.com"],
      [uid |-> "u2", email |-> "AceHwan69@gmail.com"],
      [uid |-> "u4", email |-> NullEmail] }

NoToast == [msg |-> "null", arg |-> "", type |-> "null"]

Pages == {"home", "menu", "admin"}

\* Documents of the 'menus' collection (MenuItem): two available items and one sold out
Catalog ==
    { [id |-> "m1", name |-> "bulgogi", price |-> 12000, category |-> "premium", available |-> TRUE],
      [id |-> "m2", name |-> "bibimbap", price |-> 8000, category |-> "regular", available |-> TRUE],
      [id |-> "m3", name |-> "salad", price |-> 7000, category |-> "diet", available |-> FALSE] }

MenuIds == {m.id : m \in Catalog}

\* What the administrator enters in the add-menu form: a complete entry and one without price
NewMenuInputs == {[name |-> "japchae", price |-> 9000], [name |-> "japchae", price |-> 0]}

\* the document addDoc creates from the complete entry, under the id the store assigns to it
AddedItem ==
    [id |-> "m4", name |-> "japchae", price |-> 9000, category |-> "regular", available |-> TRUE]

\* every document the 'menus' collection can hold
Documents == Catalog \cup {AddedItem}
DocIds == {m.id : m \in Documents}

\* Values typed into the checkout form
TextInputs == {"", "x"}
Tomorrow == "2024-05-02"
DateInputs == {"", Tomorrow}
TimeSlots == {"lunch", "dinner"}

\* Error codes signInWithPopup rejects with ("none": an error without code and message)
LoginErrorCodes == {"auth/popup-closed-by-user", "auth/network-request-failed"}

\* Order['status']
Statuses == {"pending", "preparing", "delivering", "completed", "cancelled"}

\* Orders the 'orders' collection holds from earlier sessions
EarlierOrder(n, st) ==
    [id |-> n, userId |-> "u2", userEmail |-> "AceHwan69@gmail.com",
     items |-> <<[id |-> "m2", name |-> "bibimbap", price |-> 8000, category |-> "regular",
                  available |-> TRUE, quantity |-> n]>>,
     totalAmount |-> 8000 * n, status |-> st, address |-> "x", contact |-> "x",
     deliveryDate |-> "2024-05-01", deliveryTime |-> "lunch", createdAt |-> 0]
EarlierOrders == <<EarlierOrder(1, "pending"), EarlierOrder(2, "completed")>>

\* setTimeout(onClose, 5000), in seconds
ToastDuration == 5
NoTimer == 0 - 1

----------------------------------------------------------------------------
(* Pure helpers *)

RECURSIVE SeqSum(_, _)
\* arr.reduce((sum, x) => sum + f(x), 0), left to right, for f given as a function on indices
SeqSum(f, n) == IF n = 0 THEN 0 ELSE SeqSum(f, n - 1) + f[n]

\* cart.reduce((sum, item) => sum + (item.price * item.quantity), 0)
CartTotal(c) == SeqSum([i \in 1..Len(c) |-> c[i].price * c[i].quantity], Len(c))

\* variant: the comparison ignores letter case
LowerCase(e) == IF e = "AceHwan69@gmail.com" THEN "acehwan69@gmail.com" ELSE e
IsAdminEmailIgnoringCase(email) == LowerCase(email) = LowerCase("acehwan69@gmail.com")

\* firebaseUser.email === ADMIN_EMAIL
IsAdminEmail(email) == email = ADMIN_EMAIL

\* the object the auth listener passes to setUser
ProfileOf(fb) == [uid |-> fb.uid, email |-> fb.email, isAdmin |-> IsAdminEmail(fb.email)]

\* user?.isAdmin
UserIsAdmin == user # NoUser /\ user.isAdmin

\* orderBy('category'): Firestore orders strings lexicographically, ties by document id
CategoryRank(c) == CASE c = "diet" -> 1 [] c = "premium" -> 2 [] c = "regular" -> 3
IdRank(id) == CASE id = "m1" -> 1 [] id = "m2" -> 2 [] id = "m3" -> 3 [] id = "m4" -> 4
DocBefore(a, b) ==
    \/ CategoryRank(a.category) < CategoryRank(b.category)
    \/ CategoryRank(a.category) = CategoryRank(b.category) /\ IdRank(a.id) <= IdRank(b.id)

RECURSIVE SnapshotOf(_)
\* snapshot.docs.map(doc => ({ id: doc.id, ...doc.data() })) of the ordered query
SnapshotOf(docs) ==
    IF docs = {} THEN <<>>
    ELSE LET first == CHOOSE d \in docs : \A e \in docs : DocBefore(d, e)
         IN  <<first>> \o SnapshotOf(docs \ {first})

\* prev.find(i => i.id === id) !== undefined
InCart(prev, id) == \E i \in 1..Len(prev) : prev[i].id = id

\* { ...item, quantity: q }
WithQuantity(item, q) ==
    [id |-> item.id, name |-> item.name, price |-> item.price, category |-> item.category,
     available |-> item.available, quantity |-> q]

\* variant: the item is appended without looking for an existing entry
AddToCartNoMerge(prev, item) == Append(prev, WithQuantity(item, 1))

\* variant: the increment is applied to every entry, not only to the one with the item's id
AddToCartBumpsAll(prev, item) ==
    IF InCart(prev, item.id)
    THEN [i \in 1..Len(prev) |-> WithQuantity(prev[i], prev[i].quantity + 1)]
    ELSE Append(prev, WithQuantity(item, 1))

\* the updater addToCart passes to setCart
AddToCartUpdate(prev, item) ==
    IF InCart(prev, item.id)
    THEN [i \in 1..Len(prev) |->
            IF prev[i].id = item.id THEN WithQuantity(prev[i], prev[i].quantity + 1) ELSE prev[i]]
    ELSE Append(prev, WithQuantity(item, 1))

\* variant: Math.max(0, q)
Max0(q) == IF q > 0 THEN q ELSE 0

\* Math.max(1, q)
Max1(q) == IF q > 1 THEN q ELSE 1

\* the updater updateQuantity passes to setCart
UpdateQuantityUpdate(prev, id, delta) ==
    [i \in 1..Len(prev) |->
        IF prev[i].id = id THEN WithQuantity(prev[i], Max1(prev[i].quantity + delta)) ELSE prev[i]]

\* the updater removeFromCart passes to setCart: prev.filter(i => i.id !== id)
RemoveFromCartUpdate(prev, id) == SelectSeq(prev, LAMBDA i : i.id # id)

\* variant: the contact field is not looked at
SubmitDisabledIgnoringContact(a, c, d) == a = "" \/ d = ""

\* disabled={!address || !contact || !deliveryDate}: a string is falsy iff it is ''
Falsy(s) == s = ""
SubmitDisabled(a, c, d) == Falsy(a) \/ Falsy(c) \/ Falsy(d)

\* the message handleLogin's catch block builds from error.code / error.message
LoginErrorMsg(code) ==
    CASE code = "auth/popup-closed-by-user" -> "loginPopupClosed"
      [] code = "auth/cancelled-popup-request" -> "loginPopupAlreadyOpen"
      [] code = "auth/popup-blocked" -> "loginPopupBlocked"
      [] code = "auth/operation-not-allowed" -> "loginNotEnabled"
      [] code = "auth/unauthorized-domain" -> "loginUnauthorizedDomain"
      [] code = "none" -> "loginFailed"
      [] OTHER -> "loginError"

\* variant: a notification is dropped while another one is displayed
ToastUnlessShown(msg, arg, type) ==
    IF toast # NoToast THEN toast ELSE [msg |-> msg, arg |-> arg, type |-> type]

\* the object a handler passes to setToast; setToast replaces whatever is displayed
Toast(msg, arg, type) == [msg |-> msg, arg |-> arg, type |-> type]

\* Date.now(), on a clock that advances with every invocation
Now == steps

\* variant: the total adds the prices without the quantities
OrderDataPriceOnly(u, c, a, ct, d, t) ==
    [userId |-> u.uid,
     userEmail |-> IF u.email = NullEmail \/ u.email = "" THEN "unknown" ELSE u.email,
     items |-> c,
     totalAmount |-> SeqSum([i \in 1..Len(c) |-> c[i].price], Len(c)),
     status |-> "pending",
     address |-> a, contact |-> ct, deliveryDate |-> d, deliveryTime |-> t,
     createdAt |-> Now]

\* the orderData record handleCheckout builds from its closure
OrderData(u, c, a, ct, d, t) ==
    [userId |-> u.uid,
     userEmail |-> IF u.email = NullEmail \/ u.email = "" THEN "unknown" ELSE u.email,
     items |-> c,
     totalAmount |-> CartTotal(c),
     status |-> "pending",
     address |-> a, contact |-> ct, deliveryDate |-> d, deliveryTime |-> t,
     createdAt |-> Now]

\* sequence s without its i-th element
RemoveAt(s, i) == [j \in 1..(Len(s) - 1) |-> IF j < i THEN s[j] ELSE s[j + 1]]

----------------------------------------------------------------------------
(* Initial state: the App just mounted. The identity provider may hold a   *)
(* persisted session, which it reports to the listener as its first event. *)

Mounted ==
    /\ user = NoUser
    /\ activePage = "home"
    /\ menus = <<>>
    /\ cart = <<>>
    /\ isCartOpen = FALSE
    /\ isCheckoutOpen = FALSE
    /\ toast = NoToast
    /\ isLoggingIn = FALSE
    /\ address = ""
    /\ contact = ""
    /\ deliveryDate = ""
    /\ deliveryTime = "lunch"
    /\ fbUser \in Accounts \cup {NoAccount}
    /\ authEvents = <<fbUser>>
    /\ signInPending = 0
    /\ dbMenus = Catalog
    /\ orderWrites = <<>>
    /\ steps = 0
    /\ adds = [id \in MenuIds |-> 0]
    /\ lastCall = [op |-> "init", id |-> "", delta |-> 0, before |-> <<>>]
    /\ orders = <<>>
    /\ ordersSub = FALSE
    /\ adminTab = "menus"
    /\ menuWrites = <<>>
    /\ statusWrites = <<>>
    /\ toastTimer = NoTimer
    /\ toastShown = 0

Init == Mounted /\ dbOrders = <<>> /\ limit = MaxSteps

\* the orders effect has to run: its dependency `user` changed so that the
\* listener is registered without an administrator or missing with one
EffectDue == ordersSub # UserIsAdmin

\* one more invocation, within the bound
TickAny == steps < limit /\ steps' = steps + 1

\* one more handler or callback invocation that goes through React: effects
\* of the last render are flushed before the next event or render is
\* processed, and a timer that is due runs first
Tick == ~EffectDue /\ toastTimer # 0 /\ TickAny

\* user?.isAdmin in the state the step leads to
UserIsAdminNext == user' # NoUser /\ user'.isAdmin

\* What follows the state updates of a step: AdminDashboard is unmounted, and
\* its tab forgotten, unless the admin page is rendered for an administrator;
\* Toast's effect depends on onClose, which App passes as a new arrow function
\* on every render, so a setToast call and every re-render of App clear the
\* timer and set a new one, and unmounting Toast clears it.
Commit(notified) ==
    /\ adminTab' = IF activePage' = "admin" /\ UserIsAdminNext THEN adminTab ELSE "menus"
    /\ toastTimer' =
          IF toast' = NoToast THEN NoTimer
          ELSE IF notified \/ appVars' # appVars \/ orders' # orders THEN ToastDuration
          ELSE toastTimer
    /\ toastShown' = IF toast' = NoToast \/ notified THEN 0 ELSE toastShown

----------------------------------------------------------------------------
(* Identity session *)

\* variant: a report without account leaves the profile as it is
AuthStateChangedKeepingUser ==
    /\ Tick
    /\ authEvents # <<>>
    /\ user' = IF Head(authEvents) # NoAccount THEN ProfileOf(Head(authEvents)) ELSE user
    /\ authEvents' = Tail(authEvents)
    /\ UNCHANGED <<activePage, menus, cart, isCartOpen, isCheckoutOpen, toast, isLoggingIn>>
    /\ UNCHANGED <<fbUser, signInPending, formVars, storeVars, histVars>>
    /\ UNCHANGED <<orders, ordersSub, writeVars, limit>>
    /\ Commit(FALSE)

\* the onAuthStateChanged callback
AuthStateChanged ==
    /\ Tick
    /\ authEvents # <<>>
    /\ user' = IF Head(authEvents) # NoAccount THEN ProfileOf(Head(authEvents)) ELSE NoUser
    /\ authEvents' = Tail(authEvents)
    /\ UNCHANGED <<activePage, menus, cart, isCartOpen, isCheckoutOpen, toast, isLoggingIn>>
    /\ UNCHANGED <<fbUser, signInPending, formVars, storeVars, histVars>>
    /\ UNCHANGED <<orders, ordersSub, writeVars, limit>>
    /\ Commit(FALSE)

\* the provider ends the session by itself (expiry, revocation, sign-out elsewhere)
SessionLost ==
    /\ Tick
    /\ fbUser # NoAccount
    /\ fbUser' = NoAccount
    /\ authEvents' = Append(authEvents, NoAccount)
    /\ UNCHANGED <<signInPending, appVars, formVars, storeVars, histVars>>
    /\ UNCHANGED <<orders, ordersSub, writeVars, limit>>
    /\ Commit(FALSE)

\* variant: no isLoggingIn guard
StartLoginUnguarded == isLoggingIn' = TRUE /\ signInPending' = signInPending + 1

\* handleLogin up to its await; shared by the login button and handleCheckout
StartLogin ==
    IF isLoggingIn
    THEN UNCHANGED <<isLoggingIn, signInPending>>
    ELSE isLoggingIn' = TRUE /\ signInPending' = signInPending + 1

\* the login button (rendered while user is null, disabled while isLoggingIn)
HandleLogin ==
    /\ Tick
    /\ user = NoUser
    /\ ~isLoggingIn
    /\ StartLogin
    /\ UNCHANGED <<user, activePage, menus, cart, isCartOpen, isCheckoutOpen, toast>>
    /\ UNCHANGED <<fbUser, authEvents, formVars, storeVars, histVars>>
    /\ UNCHANGED <<orders, ordersSub, writeVars, limit>>
    /\ Commit(FALSE)

\* signInWithPopup resolves: handleLogin's finally block
SignInResolved(acct) ==
    /\ Tick
    /\ signInPending > 0
    /\ signInPending' = signInPending - 1
    /\ fbUser' = acct
    /\ IF acct.uid # fbUser.uid
       THEN authEvents' = Append(authEvents, acct)
       ELSE UNCHANGED authEvents
    /\ isLoggingIn' = FALSE
    /\ UNCHANGED <<user, activePage, menus, cart, isCartOpen, isCheckoutOpen, toast>>
    /\ UNCHANGED <<formVars, storeVars, histVars>>
    /\ UNCHANGED <<orders, ordersSub, writeVars, limit>>
    /\ Commit(FALSE)

\* variant: a rejected request leaves the in-progress flag set (no finally block)
SignInRejectedKeepingFlag(code) ==
    /\ Tick
    /\ signInPending > 0
    /\ signInPending' = signInPending - 1
    /\ toast' = Toast(LoginErrorMsg(code), "", "error")
    /\ UNCHANGED <<user, activePage, menus, cart, isCartOpen, isCheckoutOpen, isLoggingIn>>
    /\ UNCHANGED <<fbUser, authEvents, formVars, storeVars, histVars>>
    /\ UNCHANGED <<orders, ordersSub, writeVars, limit>>
    /\ Commit(TRUE)

\* signInWithPopup rejects: handleLogin's catch and finally blocks
SignInRejected(code) ==
    /\ Tick
    /\ signInPending > 0
    /\ signInPending' = signInPending - 1
    /\ toast' = Toast(LoginErrorMsg(code), "", "error")
    /\ isLoggingIn' = FALSE
    /\ UNCHANGED <<user, activePage, menus, cart, isCartOpen, isCheckoutOpen>>
    /\ UNCHANGED <<fbUser, authEvents, formVars, storeVars, histVars>>
    /\ UNCHANGED <<orders, ordersSub, writeVars, limit>>
    /\ Commit(TRUE)

\* variant: the active page is left as it is
HandleLogoutKeepingPage ==
    /\ Tick
    /\ user # NoUser
    /\ IF fbUser # NoAccount
       THEN /\ fbUser' = NoAccount
            /\ authEvents' = Append(authEvents, NoAccount)
       ELSE UNCHANGED <<fbUser, authEvents>>
    /\ cart' = <<>>
    /\ toast' = Toast("loggedOut", "", "success")
    /\ UNCHANGED <<user, activePage, menus, isCartOpen, isCheckoutOpen, isLoggingIn>>
    /\ UNCHANGED <<signInPending, formVars, storeVars, histVars>>
    /\ UNCHANGED <<orders, ordersSub, writeVars, limit>>
    /\ Commit(TRUE)

\* handleLogout (the button is rendered while user is not null)
HandleLogout ==
    /\ Tick
    /\ user # NoUser
    /\ IF fbUser # NoAccount
       THEN /\ fbUser' = NoAccount
            /\ authEvents' = Append(authEvents, NoAccount)
       ELSE UNCHANGED <<fbUser, authEvents>>
    /\ cart' = <<>>
    /\ activePage' = "home"
    /\ toast' = Toast("loggedOut", "", "success")
    /\ UNCHANGED <<user, menus, isCartOpen, isCheckoutOpen, isLoggingIn>>
    /\ UNCHANGED <<signInPending, formVars, storeVars, histVars>>
    /\ UNCHANGED <<orders, ordersSub, writeVars, limit>>
    /\ Commit(TRUE)

----------------------------------------------------------------------------
(* Catalog feed and navigation *)

\* variant: entries whose item is no longer in the catalog are taken out of the cart
MenusSnapshotPruningCart ==
    /\ Tick
    /\ menus # SnapshotOf(dbMenus)
    /\ menus' = SnapshotOf(dbMenus)
    /\ cart' = SelectSeq(cart, LAMBDA e : \E d \in dbMenus : d.id = e.id)
    /\ UNCHANGED <<user, activePage, isCartOpen, isCheckoutOpen, toast, isLoggingIn>>
    /\ UNCHANGED <<formVars, authVars, storeVars, histVars>>
    /\ UNCHANGED <<orders, ordersSub, writeVars, limit>>
    /\ Commit(FALSE)

\* the onSnapshot callback of the 'menus' query
MenusSnapshot ==
    /\ Tick
    /\ menus # SnapshotOf(dbMenus)
    /\ menus' = SnapshotOf(dbMenus)
    /\ UNCHANGED <<user, activePage, cart, isCartOpen, isCheckoutOpen, toast, isLoggingIn>>
    /\ UNCHANGED <<formVars, authVars, storeVars, histVars>>
    /\ UNCHANGED <<orders, ordersSub, writeVars, limit>>
    /\ Commit(FALSE)

\* the navigation buttons; the admin button is rendered only for user?.isAdmin
SetActivePage(p) ==
    /\ Tick
    /\ p # activePage
    /\ p = "admin" => UserIsAdmin
    /\ activePage' = p
    /\ UNCHANGED <<user, menus, cart, isCartOpen, isCheckoutOpen, toast, isLoggingIn>>
    /\ UNCHANGED <<formVars, authVars, storeVars, histVars>>
    /\ UNCHANGED <<orders, ordersSub, writeVars, limit>>
    /\ Commit(FALSE)

\* Toast's onClose: the X button or the timer
DismissToast ==
    /\ Tick
    /\ toast # NoToast
    /\ toast' = NoToast
    /\ UNCHANGED <<user, activePage, menus, cart, isCartOpen, isCheckoutOpen, isLoggingIn>>
    /\ UNCHANGED <<formVars, authVars, storeVars, histVars>>
    /\ UNCHANGED <<orders, ordersSub, writeVars, limit>>
    /\ Commit(FALSE)

----------------------------------------------------------------------------
(* Cart *)

\* addToCart, from a MenuList card (the button is disabled for a sold-out item)
AddToCart(item) ==
    /\ Tick
    /\ activePage = "menu"
    /\ \E i \in 1..Len(menus) : menus[i] = item
    /\ item.available
    /\ cart' = AddToCartUpdate(cart, item)
    /\ toast' = Toast("addedToCart", item.name, "success")
    /\ UNCHANGED <<user, activePage, menus, isCartOpen, isCheckoutOpen, isLoggingIn>>
    /\ UNCHANGED <<formVars, authVars, storeVars, histVars>>
    /\ UNCHANGED <<orders, ordersSub, writeVars, limit>>
    /\ Commit(TRUE)

\* the cart button of the navigation bar
OpenCart ==
    /\ Tick
    /\ ~isCartOpen
    /\ isCartOpen' = TRUE
    /\ UNCHANGED <<user, activePage, menus, cart, isCheckoutOpen, toast, isLoggingIn>>
    /\ UNCHANGED <<formVars, authVars, storeVars, histVars>>
    /\ UNCHANGED <<orders, ordersSub, writeVars, limit>>
    /\ Commit(FALSE)

\* CartDrawer's onClose
CloseCart ==
    /\ Tick
    /\ isCartOpen
    /\ isCartOpen' = FALSE
    /\ UNCHANGED <<user, activePage, menus, cart, isCheckoutOpen, toast, isLoggingIn>>
    /\ UNCHANGED <<formVars, authVars, storeVars, histVars>>
    /\ UNCHANGED <<orders, ordersSub, writeVars, limit>>
    /\ Commit(FALSE)

\* updateQuantity, from the - / + buttons of a CartDrawer row (- is disabled at quantity <= 1)
UpdateQuantity(id, delta) ==
    /\ Tick
    /\ isCartOpen
    /\ \E i \in 1..Len(cart) :
          /\ cart[i].id = id
          /\ delta = -1 => cart[i].quantity > 1
    /\ cart' = UpdateQuantityUpdate(cart, id, delta)
    /\ UNCHANGED <<user, activePage, menus, isCartOpen, isCheckoutOpen, toast, isLoggingIn>>
    /\ UNCHANGED <<formVars, authVars, storeVars, histVars>>
    /\ UNCHANGED <<orders, ordersSub, writeVars, limit>>
    /\ Commit(FALSE)

\* removeFromCart, from the delete button of a CartDrawer row
RemoveFromCart(id) ==
    /\ Tick
    /\ isCartOpen
    /\ InCart(cart, id)
    /\ cart' = RemoveFromCartUpdate(cart, id)
    /\ UNCHANGED <<user, activePage, menus, isCartOpen, isCheckoutOpen, toast, isLoggingIn>>
    /\ UNCHANGED <<formVars, authVars, storeVars, histVars>>
    /\ UNCHANGED <<orders, ordersSub, writeVars, limit>>
    /\ Commit(FALSE)

----------------------------------------------------------------------------
(* Checkout *)

\* CartDrawer's onCheckout (rendered for a non-empty cart), then CheckoutModal's
\* effect on isOpen, which sets the delivery date to tomorrow
OpenCheckout ==
    /\ Tick
    /\ isCartOpen
    /\ Len(cart) > 0
    /\ ~isCheckoutOpen
    /\ isCheckoutOpen' = TRUE
    /\ deliveryDate' = Tomorrow
    /\ UNCHANGED <<user, activePage, menus, cart, isCartOpen, toast, isLoggingIn>>
    /\ UNCHANGED <<address, contact, deliveryTime, authVars, storeVars, histVars>>
    /\ UNCHANGED <<orders, ordersSub, writeVars, limit>>
    /\ Commit(FALSE)

\* CheckoutModal's onClose (backdrop or cancel button)
CloseCheckout ==
    /\ Tick
    /\ isCheckoutOpen
    /\ isCheckoutOpen' = FALSE
    /\ UNCHANGED <<user, activePage, menus, cart, isCartOpen, toast, isLoggingIn>>
    /\ UNCHANGED <<formVars, authVars, storeVars, histVars>>
    /\ UNCHANGED <<orders, ordersSub, writeVars, limit>>
    /\ Commit(FALSE)

\* the onChange handlers of CheckoutModal's inputs
SetAddress(v) ==
    /\ Tick
    /\ isCheckoutOpen
    /\ v # address
    /\ address' = v
    /\ UNCHANGED <<contact, deliveryDate, deliveryTime, appVars, authVars, storeVars, histVars>>
    /\ UNCHANGED <<orders, ordersSub, writeVars, limit>>
    /\ Commit(FALSE)

SetContact(v) ==
    /\ Tick
    /\ isCheckoutOpen
    /\ v # contact
    /\ contact' = v
    /\ UNCHANGED <<address, deliveryDate, deliveryTime, appVars, authVars, storeVars, histVars>>
    /\ UNCHANGED <<orders, ordersSub, writeVars, limit>>
    /\ Commit(FALSE)

SetDeliveryDate(v) ==
    /\ Tick
    /\ isCheckoutOpen
    /\ v # deliveryDate
    /\ deliveryDate' = v
    /\ UNCHANGED <<address, contact, deliveryTime, appVars, authVars, storeVars, histVars>>
    /\ UNCHANGED <<orders, ordersSub, writeVars, limit>>
    /\ Commit(FALSE)

SetDeliveryTime(v) ==
    /\ Tick
    /\ isCheckoutOpen
    /\ v # deliveryTime
    /\ deliveryTime' = v
    /\ UNCHANGED <<address, contact, deliveryDate, appVars, authVars, storeVars, histVars>>
    /\ UNCHANGED <<orders, ordersSub, writeVars, limit>>
    /\ Commit(FALSE)

\* variant: submit is refused while an order write is awaiting its result
HandleCheckoutOnce ==
    /\ Tick
    /\ isCheckoutOpen
    /\ ~SubmitDisabled(address, contact, deliveryDate)
    /\ orderWrites = <<>>
    /\ IF user = NoUser
       THEN /\ toast' = Toast("loginRequired", "", "error")
            /\ StartLogin
            /\ UNCHANGED orderWrites
       ELSE /\ orderWrites' = Append(orderWrites,
                  OrderData(user, cart, address, contact, deliveryDate, deliveryTime))
            /\ UNCHANGED <<toast, isLoggingIn, signInPending>>
    /\ UNCHANGED <<user, activePage, menus, cart, isCartOpen, isCheckoutOpen>>
    /\ UNCHANGED <<fbUser, authEvents, dbMenus, dbOrders, formVars, histVars>>
    /\ UNCHANGED <<orders, ordersSub, writeVars, limit>>
    /\ Commit(user = NoUser)

\* handleCheckout up to its await, from CheckoutModal's submit button
HandleCheckout ==
    /\ Tick
    /\ isCheckoutOpen
    /\ ~SubmitDisabled(address, contact, deliveryDate)
    /\ IF user = NoUser
       THEN /\ toast' = Toast("loginRequired", "", "error")
            /\ StartLogin
            /\ UNCHANGED orderWrites
       ELSE /\ orderWrites' = Append(orderWrites,
                  OrderData(user, cart, address, contact, deliveryDate, deliveryTime))
            /\ UNCHANGED <<toast, isLoggingIn, signInPending>>
    /\ UNCHANGED <<user, activePage, menus, cart, isCartOpen, isCheckoutOpen>>
    /\ UNCHANGED <<fbUser, authEvents, dbMenus, dbOrders, formVars, histVars>>
    /\ UNCHANGED <<orders, ordersSub, writeVars, limit>>
    /\ Commit(user = NoUser)

\* the store-assigned document id and the stored fields of a new order
StoredOrder(n, data) ==
    [id |-> n, userId |-> data.userId, userEmail |-> data.userEmail, items |-> data.items,
     totalAmount |-> data.totalAmount, status |-> data.status, address |-> data.address,
     contact |-> data.contact, deliveryDate |-> data.deliveryDate,
     deliveryTime |-> data.deliveryTime, createdAt |-> data.createdAt]

\* variant: the cart drawer is left open
CheckoutSucceededDrawerLeftOpen ==
    /\ cart' = <<>>
    /\ isCheckoutOpen' = FALSE
    /\ toast' = Toast("orderDone", "", "success")
    /\ UNCHANGED isCartOpen

\* variant: the catch block also closes the checkout modal
CheckoutFailedClosingModal ==
    /\ toast' = Toast("orderFailed", "", "error")
    /\ isCheckoutOpen' = FALSE
    /\ UNCHANGED <<cart, isCartOpen>>

\* the state updates handleCheckout makes after addDoc resolved
CheckoutSucceeded ==
    /\ cart' = <<>>
    /\ isCheckoutOpen' = FALSE
    /\ isCartOpen' = FALSE
    /\ toast' = Toast("orderDone", "", "success")

\* the state updates of handleCheckout's catch block
CheckoutFailed ==
    /\ toast' = Toast("orderFailed", "", "error")
    /\ UNCHANGED <<cart, isCheckoutOpen, isCartOpen>>

\* addDoc(collection(db, 'orders'), orderData) resolves: the rest of handleCheckout's try block
OrderWriteAccepted(i) ==
    /\ Tick
    /\ i \in 1..Len(orderWrites)
    /\ dbOrders' = Append(dbOrders, StoredOrder(Len(dbOrders) + 1, orderWrites[i]))
    /\ orderWrites' = RemoveAt(orderWrites, i)
    /\ CheckoutSucceeded
    /\ UNCHANGED <<user, activePage, menus, isLoggingIn>>
    /\ UNCHANGED <<dbMenus, formVars, authVars, histVars>>
    /\ UNCHANGED <<orders, ordersSub, writeVars, limit>>
    /\ Commit(TRUE)

\* addDoc rejects: handleCheckout's catch block
OrderWriteRejected(i) ==
    /\ Tick
    /\ i \in 1..Len(orderWrites)
    /\ orderWrites' = RemoveAt(orderWrites, i)
    /\ CheckoutFailed
    /\ UNCHANGED <<user, activePage, menus, isLoggingIn>>
    /\ UNCHANGED <<dbMenus, dbOrders, formVars, authVars, histVars>>
    /\ UNCHANGED <<orders, ordersSub, writeVars, limit>>
    /\ Commit(TRUE)

----------------------------------------------------------------------------
(* Orders feed *)

Range(q) == {q[i] : i \in 1..Len(q)}

RECURSIVE OrdersSnapshotOf(_)
\* snapshot.docs.map(...) of query(collection(db, 'orders'), orderBy('createdAt', 'desc'))
OrdersSnapshotOf(docs) ==
    IF docs = {} THEN <<>>
    ELSE LET first == CHOOSE d \in docs : \A e \in docs :
                          \/ d.createdAt > e.createdAt
                          \/ d.createdAt = e.createdAt /\ d.id >= e.id
         IN  <<first>> \o OrdersSnapshotOf(docs \ {first})

\* The effect with dependency [user], run by React after the render in which
\* `user` changed: the cleanup of the previous run unsubscribes, and the body
\* registers the listener if user?.isAdmin. React runs it after the commit, as
\* a task of its own, and before it processes the next event or render.
OrdersEffect ==
    /\ EffectDue
    /\ ordersSub' = UserIsAdmin
    /\ UNCHANGED <<appVars, formVars, authVars, storeVars, histVars, steps>>
    /\ UNCHANGED <<orders, adminTab, writeVars, timerVars, limit>>

\* the onSnapshot callback of the 'orders' query, called while the listener is registered
OrdersSnapshot ==
    /\ TickAny
    /\ ordersSub
    /\ orders # OrdersSnapshotOf(Range(dbOrders))
    /\ orders' = OrdersSnapshotOf(Range(dbOrders))
    /\ UNCHANGED <<appVars, formVars, authVars, storeVars, histVars>>
    /\ UNCHANGED <<ordersSub, writeVars, limit>>
    /\ Commit(FALSE)

----------------------------------------------------------------------------
(* Admin console *)

\* variant: AdminDashboard is rendered on the admin page whoever the user is
AdminConsoleShownToAnyone == activePage = "admin"

\* activePage === 'admin' && user?.isAdmin: AdminDashboard is rendered
AdminConsoleShown == activePage = "admin" /\ UserIsAdmin

\* activePage === 'admin' && !user?.isAdmin: the access-denied view is rendered
AccessDeniedShown == activePage = "admin" /\ ~UserIsAdmin

\* the tab buttons of AdminDashboard
SetActiveTab(t) ==
    /\ Tick
    /\ AdminConsoleShown
    /\ t # adminTab
    /\ adminTab' = t
    /\ UNCHANGED <<appVars, formVars, authVars, storeVars, histVars>>
    /\ UNCHANGED <<orders, ordersSub, writeVars, timerVars, limit>>

NoItem == [name |-> "", price |-> 0, category |-> "", available |-> FALSE]

\* the item handleAddSubmit passes to onAddMenu
NewMenuItem(input) ==
    [name |-> input.name, price |-> input.price, category |-> "regular", available |-> TRUE]

\* handleAddSubmit, then addMenu up to its await; the store has one fresh document id
HandleAddSubmit(input) ==
    /\ Tick
    /\ AdminConsoleShown
    /\ adminTab = "menus"
    /\ AddedItem \notin dbMenus
    /\ \A i \in 1..Len(menuWrites) : menuWrites[i].op # "add"
    /\ Len(menuWrites) < MaxPending
    /\ IF input.name # "" /\ input.price # 0
       THEN menuWrites' = Append(menuWrites, [op |-> "add", id |-> "", item |-> NewMenuItem(input)])
       ELSE UNCHANGED menuWrites
    /\ UNCHANGED <<appVars, formVars, authVars, storeVars, histVars>>
    /\ UNCHANGED <<orders, ordersSub, statusWrites, limit>>
    /\ Commit(FALSE)

\* variant: the answer to window.confirm is not looked at
DeleteMenuUnasked(id, confirmed) ==
    /\ Tick
    /\ AdminConsoleShown
    /\ adminTab = "menus"
    /\ \E i \in 1..Len(menus) : menus[i].id = id
    /\ Len(menuWrites) < MaxPending
    /\ menuWrites' = Append(menuWrites, [op |-> "delete", id |-> id, item |-> NoItem])
    /\ UNCHANGED <<appVars, formVars, authVars, storeVars, histVars>>
    /\ UNCHANGED <<orders, ordersSub, statusWrites, limit>>
    /\ Commit(FALSE)

\* deleteMenu up to its await, from the delete button of a menu row;
\* confirmed is the answer to window.confirm
DeleteMenu(id, confirmed) ==
    /\ Tick
    /\ AdminConsoleShown
    /\ adminTab = "menus"
    /\ \E i \in 1..Len(menus) : menus[i].id = id
    /\ confirmed => Len(menuWrites) < MaxPending
    /\ IF confirmed
       THEN menuWrites' = Append(menuWrites, [op |-> "delete", id |-> id, item |-> NoItem])
       ELSE UNCHANGED menuWrites
    /\ UNCHANGED <<appVars, formVars, authVars, storeVars, histVars>>
    /\ UNCHANGED <<orders, ordersSub, statusWrites, limit>>
    /\ Commit(FALSE)

\* the 'menus' collection after the store applied a write
MenusAfter(docs, w) ==
    IF w.op = "add"
    THEN docs \cup {[id |-> "m4", name |-> w.item.name, price |-> w.item.price,
                      category |-> w.item.category, available |-> w.item.available]}
    ELSE {d \in docs : d.id # w.id}

\* addDoc(collection(db, 'menus'), item) or deleteDoc(doc(db, 'menus', id)) resolves
MenuWriteAccepted(i) ==
    /\ Tick
    /\ i \in 1..Len(menuWrites)
    /\ dbMenus' = MenusAfter(dbMenus, menuWrites[i])
    /\ menuWrites' = RemoveAt(menuWrites, i)
    /\ toast' = Toast(IF menuWrites[i].op = "add" THEN "menuAdded" ELSE "menuDeleted", "", "success")
    /\ UNCHANGED <<user, activePage, menus, cart, isCartOpen, isCheckoutOpen, isLoggingIn>>
    /\ UNCHANGED <<orderWrites, dbOrders, formVars, authVars, histVars>>
    /\ UNCHANGED <<orders, ordersSub, statusWrites, limit>>
    /\ Commit(TRUE)

\* addDoc or deleteDoc rejects: the catch block of addMenu or deleteMenu
MenuWriteRejected(i) ==
    /\ Tick
    /\ i \in 1..Len(menuWrites)
    /\ menuWrites' = RemoveAt(menuWrites, i)
    /\ toast' = Toast(IF menuWrites[i].op = "add" THEN "menuAddFailed" ELSE "menuDeleteFailed", "", "error")
    /\ UNCHANGED <<user, activePage, menus, cart, isCartOpen, isCheckoutOpen, isLoggingIn>>
    /\ UNCHANGED <<storeVars, formVars, authVars, histVars>>
    /\ UNCHANGED <<orders, ordersSub, statusWrites, limit>>
    /\ Commit(TRUE)

\* updateOrderStatus up to its await, from the status select of an order row
\* (a select fires onChange only for a value other than the displayed one)
UpdateOrderStatus(orderId, status) ==
    /\ Tick
    /\ AdminConsoleShown
    /\ adminTab = "orders"
    /\ \E k \in 1..Len(orders) : orders[k].id = orderId /\ orders[k].status # status
    /\ Len(statusWrites) < MaxPending
    /\ statusWrites' = Append(statusWrites, [orderId |-> orderId, status |-> status])
    /\ UNCHANGED <<appVars, formVars, authVars, storeVars, histVars>>
    /\ UNCHANGED <<orders, ordersSub, menuWrites, limit>>
    /\ Commit(FALSE)

\* variant: the status is written to every order of the collection
UpdateDocEveryOrder(docs, orderId, status) ==
    [k \in 1..Len(docs) |-> [docs[k] EXCEPT !.status = status]]

\* the 'orders' collection after updateDoc(doc(db, 'orders', orderId), { status })
UpdateDoc(docs, orderId, status) ==
    [k \in 1..Len(docs) |->
        IF docs[k].id = orderId THEN [docs[k] EXCEPT !.status = status] ELSE docs[k]]

\* updateDoc resolves: the rest of updateOrderStatus's try block
StatusWriteAccepted(i) ==
    /\ Tick
    /\ i \in 1..Len(statusWrites)
    /\ dbOrders' = UpdateDoc(dbOrders, statusWrites[i].orderId, statusWrites[i].status)
    /\ statusWrites' = RemoveAt(statusWrites, i)
    /\ toast' = Toast("statusChanged", "", "success")
    /\ UNCHANGED <<user, activePage, menus, cart, isCartOpen, isCheckoutOpen, isLoggingIn>>
    /\ UNCHANGED <<dbMenus, orderWrites, formVars, authVars, histVars>>
    /\ UNCHANGED <<orders, ordersSub, menuWrites, limit>>
    /\ Commit(TRUE)

\* updateDoc rejects: updateOrderStatus's catch block
StatusWriteRejected(i) ==
    /\ Tick
    /\ i \in 1..Len(statusWrites)
    /\ statusWrites' = RemoveAt(statusWrites, i)
    /\ toast' = Toast("statusChangeFailed", "", "error")
    /\ UNCHANGED <<user, activePage, menus, cart, isCartOpen, isCheckoutOpen, isLoggingIn>>
    /\ UNCHANGED <<storeVars, formVars, authVars, histVars>>
    /\ UNCHANGED <<orders, ordersSub, menuWrites, limit>>
    /\ Commit(TRUE)

----------------------------------------------------------------------------
(* The storefront: identity session, catalog, cart, checkout and the order *)
(* feed. A handler is enabled wherever its control is rendered:            *)
(* the drawer and the modal are overlays without focus trap, so the        *)
(* controls behind them stay reachable by keyboard. Promises resolve and   *)
(* feed and listener callbacks arrive in any order, each as a step of its  *)
(* own.                                                                    *)

Next ==
    \/ AuthStateChanged
    \/ SessionLost
    \/ HandleLogin
    \/ \E acct \in Accounts : SignInResolved(acct)
    \/ \E code \in LoginErrorCodes : SignInRejected(code)
    \/ HandleLogout
    \/ MenusSnapshot
    \/ \E p \in Pages : SetActivePage(p)
    \/ DismissToast
    \/ \E item \in Catalog : AddToCart(item)
    \/ OpenCart
    \/ CloseCart
    \/ \E id \in MenuIds, delta \in {-1, 1} : UpdateQuantity(id, delta)
    \/ \E id \in MenuIds : RemoveFromCart(id)
    \/ OpenCheckout
    \/ CloseCheckout
    \/ \E v \in TextInputs : SetAddress(v)
    \/ \E v \in TextInputs : SetContact(v)
    \/ \E v \in DateInputs : SetDeliveryDate(v)
    \/ \E v \in TimeSlots : SetDeliveryTime(v)
    \/ HandleCheckout
    \/ \E i \in 1..Len(orderWrites) : OrderWriteAccepted(i)
    \/ \E i \in 1..Len(orderWrites) : OrderWriteRejected(i)
    \/ OrdersEffect
    \/ OrdersSnapshot

Spec == Init /\ [][Next]_vars

----------------------------------------------------------------------------
(* The admin console with the parts of the application it shares state     *)
(* with: identity session, navigation, both feeds, the notification slot   *)
(* and the cart; the checkout form and the order writes are followed by    *)
(* Spec. The 'orders' collection holds two orders of earlier sessions.     *)

ConsoleInit == Mounted /\ dbOrders = EarlierOrders /\ limit = MaxConsoleSteps

ConsoleNext ==
    \/ AuthStateChanged
    \/ SessionLost
    \/ HandleLogin
    \/ \E acct \in Accounts : SignInResolved(acct)
    \/ \E code \in LoginErrorCodes : SignInRejected(code)
    \/ HandleLogout
    \/ MenusSnapshot
    \/ \E p \in Pages : SetActivePage(p)
    \/ DismissToast
    \/ \E item \in Documents : AddToCart(item)
    \/ OpenCart
    \/ CloseCart
    \/ \E id \in DocIds : RemoveFromCart(id)
    \/ OrdersEffect
    \/ OrdersSnapshot
    \/ \E t \in {"menus", "orders"} : SetActiveTab(t)
    \/ \E input \in NewMenuInputs : HandleAddSubmit(input)
    \/ \E id \in DocIds, confirmed \in BOOLEAN : DeleteMenu(id, confirmed)
    \/ \E i \in 1..Len(menuWrites) : MenuWriteAccepted(i)
    \/ \E i \in 1..Len(menuWrites) : MenuWriteRejected(i)
    \/ \E k \in 1..Len(orders), s \in Statuses : UpdateOrderStatus(orders[k].id, s)
    \/ \E i \in 1..Len(statusWrites) : StatusWriteAccepted(i)
    \/ \E i \in 1..Len(statusWrites) : StatusWriteRejected(i)

ConsoleSpec == ConsoleInit /\ [][ConsoleNext]_vars

----------------------------------------------------------------------------
(* The checkout flow on its own, from the first session report to the      *)
(* results of the order writes, followed for one invocation more than the  *)
(* storefront.                                                             *)

CheckoutInit == Mounted /\ dbOrders = <<>> /\ limit = MaxCheckoutSteps

CheckoutNext ==
    \/ AuthStateChanged
    \/ OrdersEffect
    \/ MenusSnapshot
    \/ \E p \in Pages : SetActivePage(p)
    \/ \E item \in Catalog : AddToCart(item)
    \/ OpenCart
    \/ OpenCheckout
    \/ CloseCheckout
    \/ \E v \in TextInputs : SetAddress(v)
    \/ \E v \in TextInputs : SetContact(v)
    \/ HandleCheckout
    \/ \E i \in 1..Len(orderWrites) : OrderWriteAccepted(i)
    \/ \E i \in 1..Len(orderWrites) : OrderWriteRejected(i)

CheckoutSpec == CheckoutInit /\ [][CheckoutNext]_vars

----------------------------------------------------------------------------
(* The identity session on its own, with navigation and the catalog feed.  *)
(* The provider calls the listener for every session change it has         *)
(* recorded, and React runs a pending effect: both are weakly fair.        *)

LiveInit == Mounted /\ dbOrders = <<>> /\ limit = MaxLiveSteps

LiveNext ==
    \/ AuthStateChanged
    \/ SessionLost
    \/ HandleLogin
    \/ \E acct \in Accounts : SignInResolved(acct)
    \/ \E code \in LoginErrorCodes : SignInRejected(code)
    \/ HandleLogout
    \/ OrdersEffect
    \/ MenusSnapshot
    \/ \E p \in Pages : SetActivePage(p)
    \/ DismissToast

LiveSpec ==
    /\ LiveInit
    /\ [][LiveNext]_vars
    /\ WF_vars(AuthStateChanged)
    /\ WF_vars(OrdersEffect)

----------------------------------------------------------------------------
(* The notification timer: the storefront's navigation, cart and session   *)
(* steps with time passing between them. In the other specifications no    *)
(* time passes, and a toast leaves by DismissToast only.                   *)

\* dt seconds pass while Toast's timer runs
Advance(dt) ==
    /\ TickAny
    /\ toastTimer # NoTimer
    /\ dt \in 1..toastTimer
    /\ toastTimer' = toastTimer - dt
    /\ toastShown' = toastShown + dt
    /\ UNCHANGED <<appVars, formVars, authVars, storeVars, histVars>>
    /\ UNCHANGED <<adminVars, writeVars, limit>>

\* the timer set by Toast's effect calls onClose
TimerFires ==
    /\ TickAny
    /\ toastTimer = 0
    /\ toast' = NoToast
    /\ UNCHANGED <<user, activePage, menus, cart, isCartOpen, isCheckoutOpen, isLoggingIn>>
    /\ UNCHANGED <<formVars, authVars, storeVars, histVars>>
    /\ UNCHANGED <<orders, ordersSub, writeVars, limit>>
    /\ Commit(FALSE)

TimedInit == Mounted /\ dbOrders = <<>> /\ limit = MaxTimedSteps

TimedNext ==
    \/ AuthStateChanged
    \/ OrdersEffect
    \/ HandleLogout
    \/ MenusSnapshot
    \/ \E p \in Pages : SetActivePage(p)
    \/ DismissToast
    \/ \E item \in Catalog : AddToCart(item)
    \/ OpenCart
    \/ CloseCart
    \/ \E id \in MenuIds : RemoveFromCart(id)
    \/ \E dt \in 1..ToastDuration : Advance(dt)
    \/ TimerFires

TimedSpec == TimedInit /\ [][TimedNext]_vars

----------------------------------------------------------------------------
(* The revenue chart on its own: chartData as a function of the order list *)
(* AdminDashboard is given, for every list of up to MaxChartOrders orders  *)
(* created at times 0..MaxTime, in the order of the feed.                  *)

\* the local calendar day a time falls on, counted from a Monday
CalendarDay(t) == t \div DayLength

\* new Date(t).toLocaleDateString('ko-KR', { weekday: 'short' })
WeekdayNames == <<"Mon", "Tue", "Wed", "Thu", "Fri", "Sat", "Sun">>
WeekdayShort(t) == WeekdayNames[(CalendarDay(t) % 7) + 1]

RECURSIVE ChartStats(_, _)
\* stats after orders.forEach over the first n orders, as Object.entries lists
\* it: one { name, value } per key, in the order the keys were first set
ChartStats(os, n) ==
    IF n = 0 THEN <<>>
    ELSE LET prev == ChartStats(os, n - 1)
             date == WeekdayShort(os[n].createdAt)
         IN  IF \E i \in 1..Len(prev) : prev[i].name = date
             THEN [i \in 1..Len(prev) |->
                     IF prev[i].name = date
                     THEN [name |-> date, value |-> prev[i].value + os[n].totalAmount]
                     ELSE prev[i]]
             ELSE Append(prev, [name |-> date, value |-> os[n].totalAmount])

\* chartData
ChartData(os) == ChartStats(os, Len(os))

ChartAmounts == {5000, 10000, 15000}

\* an order of the 'orders' collection with the fields chartData reads given
ChartOrder(n, t, amount) ==
    [id |-> n, userId |-> "u2", userEmail |-> "AceHwan69@gmail.com", items |-> <<>>,
     totalAmount |-> amount, status |-> "pending", address |-> "x", contact |-> "x",
     deliveryDate |-> "2024-05-01", deliveryTime |-> "lunch", createdAt |-> t]

\* AdminDashboard is rendered with a list that holds one more order
FnChart(t, amount) ==
    /\ Len(orders) < MaxChartOrders
    /\ orders' = OrdersSnapshotOf(Range(orders) \cup {ChartOrder(Len(orders) + 1, t, amount)})
    /\ UNCHANGED <<appVars, formVars, authVars, storeVars, histVars, steps>>
    /\ UNCHANGED <<ordersSub, adminTab, writeVars, timerVars, limit>>

ChartInit == Mounted /\ dbOrders = <<>> /\ limit = MaxChartOrders

ChartNext == \E t \in 0..MaxTime, amount \in ChartAmounts : FnChart(t, amount)

ChartSpec == ChartInit /\ [][ChartNext]_vars

----------------------------------------------------------------------------
(* The cart algebra on its own: the three updaters applied as functions,   *)
(* to every menu item, every id and every delta in -MaxDelta..MaxDelta,    *)
(* starting from the empty cart.                                           *)

Call == steps < MaxCalls /\ steps' = steps + 1

Deltas == (0 - MaxDelta)..MaxDelta

\* addToCart(item) as a function call
FnAdd(item) ==
    /\ Call
    /\ cart' = AddToCartUpdate(cart, item)
    /\ adds' = [adds EXCEPT ![item.id] = IF @ >= 0 THEN @ + 1 ELSE @]
    /\ lastCall' = [op |-> "add", id |-> item.id, delta |-> 0, before |-> cart]
    /\ UNCHANGED <<user, activePage, menus, isCartOpen, isCheckoutOpen, toast, isLoggingIn>>
    /\ UNCHANGED <<formVars, authVars, storeVars>>
    /\ UNCHANGED <<adminVars, writeVars, timerVars, limit>>

\* updateQuantity(id, delta) as a function call
FnUpdateQuantity(id, delta) ==
    /\ Call
    /\ cart' = UpdateQuantityUpdate(cart, id, delta)
    /\ adds' = [adds EXCEPT ![id] = IF InCart(cart, id) THEN -1 ELSE @]
    /\ lastCall' = [op |-> "updateQuantity", id |-> id, delta |-> delta, before |-> cart]
    /\ UNCHANGED <<user, activePage, menus, isCartOpen, isCheckoutOpen, toast, isLoggingIn>>
    /\ UNCHANGED <<formVars, authVars, storeVars>>
    /\ UNCHANGED <<adminVars, writeVars, timerVars, limit>>

\* removeFromCart(id) as a function call
FnRemove(id) ==
    /\ Call
    /\ cart' = RemoveFromCartUpdate(cart, id)
    /\ adds' = [adds EXCEPT ![id] = 0]
    /\ lastCall' = [op |-> "remove", id |-> id, delta |-> 0, before |-> cart]
    /\ UNCHANGED <<user, activePage, menus, isCartOpen, isCheckoutOpen, toast, isLoggingIn>>
    /\ UNCHANGED <<formVars, authVars, storeVars>>
    /\ UNCHANGED <<adminVars, writeVars, timerVars, limit>>

NextCart ==
    \/ \E item \in Catalog : FnAdd(item)
    \/ \E id \in MenuIds, delta \in Deltas : FnUpdateQuantity(id, delta)
    \/ \E id \in MenuIds : FnRemove(id)

CartSpec == Init /\ [][NextCart]_vars

----------------------------------------------------------------------------
(* Properties *)

Last(q) == q[Len(q)]

\* the literal sum of price x quantity over a list of entries
SumPriceQty(items) ==
    LET RECURSIVE Upto(_)
        Upto(n) == IF n = 0 THEN 0 ELSE items[n].price * items[n].quantity + Upto(n - 1)
    IN  Upto(Len(items))

\* the total CartDrawer and CheckoutModal display for the current cart
DisplayedTotal == CartTotal(cart)

\* C1: when the store accepts an order write, the next state has an empty
\* cart, the checkout modal closed, the cart drawer closed and the success
\* notification displayed, whatever the cart, drawer and modal were before.
C1_AcceptedOrderClearsAndCloses ==
    [][\A i \in 1..Len(orderWrites) :
          OrderWriteAccepted(i) =>
              /\ cart' = <<>>
              /\ isCheckoutOpen' = FALSE
              /\ isCartOpen' = FALSE
              /\ toast' = [msg |-> "orderDone", arg |-> "", type |-> "success"]]_vars

\* an order was accepted after the form had been edited while the write was pending
C1_Witness ==
    /\ toast.msg = "orderDone"
    /\ Len(dbOrders) = 1
    /\ dbOrders[1].address # address
    /\ cart = <<>> /\ ~isCheckoutOpen /\ ~isCartOpen

C3_Original ==
    [][(HandleCheckout /\ user = NoUser) =>
          /\ orderWrites' = orderWrites /\ dbOrders' = dbOrders
          /\ cart' = cart
          /\ isCheckoutOpen' = TRUE
          /\ toast' = [msg |-> "loginRequired", arg |-> "", type |-> "error"]
          /\ signInPending' = signInPending + 1]_vars

\* C3 amended: a submit without a user issues no order write, leaves the cart
\* and the open modal unchanged, displays the error notification and starts a
\* sign-in request unless one is already in progress, in which case no second
\* request is started; either way a sign-in is in progress afterwards.
C3_SubmitWithoutUser ==
    [][(HandleCheckout /\ user = NoUser) =>
          /\ orderWrites' = orderWrites /\ dbOrders' = dbOrders
          /\ cart' = cart
          /\ isCheckoutOpen' = TRUE
          /\ toast' = [msg |-> "loginRequired", arg |-> "", type |-> "error"]
          /\ isLoggingIn' = TRUE
          /\ signInPending' = IF isLoggingIn THEN signInPending ELSE signInPending + 1]_vars

\* a submit without a user has started the sign-in flow
C3_Witness ==
    /\ toast.msg = "loginRequired"
    /\ user = NoUser
    /\ isLoggingIn /\ signInPending = 1
    /\ isCheckoutOpen /\ Len(cart) > 0
    /\ orderWrites = <<>> /\ dbOrders = <<>>

\* C4: every order write carries status "pending" and a totalAmount equal to
\* the literal sum of price x quantity over its own items, the store persists
\* it so, and at submit the total is the one displayed for the cart.
C4_OrdersTotalled ==
    /\ \A i \in 1..Len(orderWrites) :
          /\ orderWrites[i].status = "pending"
          /\ orderWrites[i].totalAmount = SumPriceQty(orderWrites[i].items)
    /\ \A i \in 1..Len(dbOrders) :
          dbOrders[i].totalAmount = SumPriceQty(dbOrders[i].items)

C4_AtSubmitAndCreation ==
    /\ (HandleCheckout /\ user # NoUser) =>
          /\ Last(orderWrites').items = cart
          /\ Last(orderWrites').totalAmount = DisplayedTotal
    /\ \A i \in 1..Len(orderWrites) :
          OrderWriteAccepted(i) =>
              /\ Last(dbOrders').status = "pending"
              /\ Last(dbOrders').items = orderWrites[i].items
              /\ Last(dbOrders').totalAmount = orderWrites[i].totalAmount

C4_OrderTotalAndStatus == []C4_OrdersTotalled /\ [][C4_AtSubmitAndCreation]_vars

\* an order of one item taken twice was persisted with twice its price
C4_Witness ==
    /\ Len(dbOrders) = 1
    /\ dbOrders[1].status = "pending"
    /\ Len(dbOrders[1].items) = 1
    /\ dbOrders[1].items[1].quantity = 2
    /\ dbOrders[1].totalAmount = 2 * dbOrders[1].items[1].price

\* C5: the cart has at most one entry per menu item id and every quantity is
\* an integer of at least 1.
C5_CartWellFormed ==
    /\ \A i, j \in 1..Len(cart) : cart[i].id = cart[j].id => i = j
    /\ \A i \in 1..Len(cart) : cart[i].quantity \in Nat /\ cart[i].quantity >= 1

\* two entries, the second one added twice, shown in the open drawer
C5_Witness ==
    /\ Len(cart) = 2
    /\ cart[1].quantity = 1 /\ cart[2].quantity = 2
    /\ toast.msg = "addedToCart"
    /\ isCartOpen

\* C6: n >= 1 add calls of one id, starting with the id absent and with no
\* remove or updateQuantity of it since, leave exactly one entry of that id,
\* with quantity n; an add call leaves the entries of other ids as they were.
EntriesOf(c, id) == {i \in 1..Len(c) : c[i].id = id}
OtherEntries(c, id) == SelectSeq(c, LAMBDA e : e.id # id)

C6_RunCounted ==
    \A id \in MenuIds :
        adds[id] >= 1 =>
            /\ Cardinality(EntriesOf(cart, id)) = 1
            /\ \A i \in EntriesOf(cart, id) : cart[i].quantity = adds[id]

C6_AddFrame ==
    \A item \in Catalog :
        FnAdd(item) => OtherEntries(cart', item.id) = OtherEntries(cart, item.id)

C6_AddCountsCalls == []C6_RunCounted /\ [][C6_AddFrame]_vars

\* three add calls of one id, with an entry of another id in the cart
C6_Witness ==
    /\ \E id \in MenuIds : adds[id] = 3 /\ \E i \in 1..Len(cart) : cart[i].id = id /\ cart[i].quantity = 3
    /\ Len(cart) = 2
    /\ lastCall.op = "add"

\* C7: updateQuantity(id, delta) sets the quantity of the entry with that id
\* to max(1, quantity + delta), leaves every other entry unchanged, and leaves
\* the cart unchanged when no entry has that id.
C7_UpdateQuantityClamps ==
    [][\A id \in MenuIds, delta \in Deltas :
          FnUpdateQuantity(id, delta) =>
              /\ Len(cart') = Len(cart)
              /\ \A i \in 1..Len(cart) :
                    /\ cart'[i].id = cart[i].id
                    /\ cart'[i].price = cart[i].price
                    /\ cart[i].id # id => cart'[i] = cart[i]
                    /\ cart[i].id = id =>
                          cart'[i].quantity =
                              IF cart[i].quantity + delta >= 1 THEN cart[i].quantity + delta ELSE 1
              /\ (EntriesOf(cart, id) = {} => cart' = cart)]_vars

\* a delta that would take a quantity of 2 below 1 (to 0) left it at 1, next to another entry
C7_Witness ==
    /\ lastCall.op = "updateQuantity"
    /\ lastCall.delta = -2
    /\ Len(cart) = 2
    /\ \E i \in 1..2 :
          /\ lastCall.before[i].id = lastCall.id
          /\ lastCall.before[i].quantity = 2
          /\ cart[i].quantity = 1

\* C8: while the checkout modal is open the submit button is disabled iff
\* address, contact or delivery date is the empty string, and no order write,
\* pending or persisted, has an empty address, contact or delivery date.
C8_SubmitNeedsAllFields ==
    /\ isCheckoutOpen =>
          (SubmitDisabled(address, contact, deliveryDate)
              <=> (address = "" \/ contact = "" \/ deliveryDate = ""))
    /\ \A i \in 1..Len(orderWrites) :
          orderWrites[i].address # "" /\ orderWrites[i].contact # "" /\ orderWrites[i].deliveryDate # ""
    /\ \A i \in 1..Len(dbOrders) :
          dbOrders[i].address # "" /\ dbOrders[i].contact # "" /\ dbOrders[i].deliveryDate # ""

\* a write was issued from the full form, and the button is disabled again after the contact was cleared
C8_Witness ==
    /\ isCheckoutOpen
    /\ Len(orderWrites) = 1
    /\ contact = "" /\ address # "" /\ deliveryDate # ""
    /\ SubmitDisabled(address, contact, deliveryDate)

\* C9: logout leaves the cart empty and the active page equal to home, from
\* any page and any cart.
C9_LogoutClearsCartAndGoesHome ==
    [][HandleLogout => (cart' = <<>> /\ activePage' = "home")]_vars

\* the administrator has logged out (the listener has not yet reported the sign-out)
C9_Witness ==
    /\ toast.msg = "loggedOut"
    /\ cart = <<>> /\ activePage = "home"
    /\ user # NoUser /\ user.isAdmin
    /\ fbUser = NoAccount

\* C10: the administrator flag is true iff a user is present and its email is
\* exactly the administrator address; no user, no email or any other email
\* (also one differing only in letter case) gives false.
C10_AdminFlagIsExactEmailMatch ==
    /\ UserIsAdmin <=> (user # NoUser /\ user.email = "acehwan69@gmail.com")
    /\ user # NoUser => (user.isAdmin <=> user.email = "acehwan69@gmail.com")
    /\ user = NoUser => ~UserIsAdmin
    /\ (user # NoUser /\ user.email = NullEmail) => ~UserIsAdmin

\* the account whose address differs only in letter case is signed in, without the flag
C10_Witness ==
    /\ user # NoUser
    /\ user.email = "AceHwan69@gmail.com"
    /\ ~UserIsAdmin

----------------------------------------------------------------------------
(* Orders feed and admin console *)

\* C11 as stated: the listener of the order collection is registered only
\* while the current user is an administrator, and an order snapshot changes
\* the local order list only while the current user is an administrator.
C11_ListenerNeedsAdmin == ordersSub => (user # NoUser /\ user.isAdmin)

C11_SnapshotNeedsAdmin == orders' # orders => (user # NoUser /\ user.isAdmin)

C11_Original == []C11_ListenerNeedsAdmin /\ [][C11_SnapshotNeedsAdmin]_vars

\* C12: add, delete and status update can be invoked only while the active
\* page is admin and the current user is an administrator; in every other
\* state, the access-denied view of the admin page included, none of them is
\* enabled, and on the admin page exactly one of console and access-denied
\* view is rendered.
C12_AdminOperation ==
    \/ \E input \in NewMenuInputs : HandleAddSubmit(input)
    \/ \E id \in DocIds, confirmed \in BOOLEAN : DeleteMenu(id, confirmed)
    \/ \E k \in 1..Len(orders), st \in Statuses : UpdateOrderStatus(orders[k].id, st)

C12_IsAdminOnAdminPage == activePage = "admin" /\ user # NoUser /\ user.isAdmin

C12_NoOperationOffConsole ==
    /\ ~C12_IsAdminOnAdminPage => ~ENABLED C12_AdminOperation
    /\ activePage = "admin" => (AccessDeniedShown <=> ~C12_IsAdminOnAdminPage)
    /\ AdminConsoleShown <=> C12_IsAdminOnAdminPage

C12_AdminOperationsGated ==
    []C12_NoOperationOffConsole /\ [][C12_AdminOperation => C12_IsAdminOnAdminPage]_vars

\* the access-denied view: the admin page after the administrator's session
\* was lost, with the catalog loaded, the effects run and invocations left
C12_Witness ==
    /\ activePage = "admin"
    /\ user = NoUser
    /\ ~ordersSub
    /\ Len(menus) > 0
    /\ steps < limit

\* C13: deleteMenu issues no delete call when the prompt is declined and
\* exactly one, for the id given, when it is confirmed; a failed delete call
\* is dropped without another call being issued, and no other step issues one.
DeleteCalls(w) == SelectSeq(w, LAMBDA c : c.op = "delete")

C13_DeleteStep ==
    /\ \A id \in DocIds, confirmed \in BOOLEAN :
          DeleteMenu(id, confirmed) =>
              /\ dbMenus' = dbMenus
              /\ menuWrites' =
                    IF confirmed
                    THEN Append(menuWrites, [op |-> "delete", id |-> id, item |-> NoItem])
                    ELSE menuWrites
    /\ \A i \in 1..Len(menuWrites) :
          MenuWriteRejected(i) =>
              /\ dbMenus' = dbMenus
              /\ Len(menuWrites') = Len(menuWrites) - 1
              /\ Len(DeleteCalls(menuWrites')) <= Len(DeleteCalls(menuWrites))
    /\ Len(DeleteCalls(menuWrites')) > Len(DeleteCalls(menuWrites)) =>
          \E id \in DocIds : DeleteMenu(id, TRUE)

C13_DeleteOnlyWhenConfirmed == [][C13_DeleteStep]_vars

\* a confirmed delete failed: the item is still in the collection and no call is pending
C13_Witness ==
    /\ toast.msg = "menuDeleteFailed"
    /\ menuWrites = <<>>
    /\ dbMenus = Catalog
    /\ AdminConsoleShown

\* C14 as stated: the revenue summary has one group per distinct calendar
\* day on which an order of the list was created, and the group of a day has
\* the sum of totalAmount of the orders created on that day.
DaysOf(os) == {CalendarDay(os[i].createdAt) : i \in 1..Len(os)}

RevenueOfDay(os, d) ==
    SeqSum([i \in 1..Len(os) |->
               IF CalendarDay(os[i].createdAt) = d THEN os[i].totalAmount ELSE 0], Len(os))

C14_Original ==
    /\ Len(ChartData(orders)) = Cardinality(DaysOf(orders))
    /\ \A d \in DaysOf(orders) :
          \E i \in 1..Len(ChartData(orders)) :
              ChartData(orders)[i].value = RevenueOfDay(orders, d)

----------------------------------------------------------------------------
(* Notification slot *)

\* C15: the slot holds no notification or exactly one, every notify call
\* leaves its own notification displayed whatever was displayed before, and
\* dismissing leaves the slot empty: nothing is queued and nothing is dropped.
C15_OneSlot ==
    \/ toast = NoToast
    \/ /\ DOMAIN toast = {"msg", "arg", "type"}
       /\ toast.type \in {"success", "error"}
       /\ toast.msg # "null"

Notification(msg, arg, type) == [msg |-> msg, arg |-> arg, type |-> type]

C15_NotifySteps ==
    /\ \A code \in LoginErrorCodes :
          SignInRejected(code) =>
              toast' = Notification(IF code = "auth/popup-closed-by-user"
                                    THEN "loginPopupClosed" ELSE "loginError", "", "error")
    /\ HandleLogout => toast' = Notification("loggedOut", "", "success")
    /\ \A item \in Documents :
          AddToCart(item) => toast' = Notification("addedToCart", item.name, "success")
    /\ (HandleCheckout /\ user = NoUser) => toast' = Notification("loginRequired", "", "error")
    /\ \A i \in 1..Len(orderWrites) :
          /\ OrderWriteAccepted(i) => toast' = Notification("orderDone", "", "success")
          /\ OrderWriteRejected(i) => toast' = Notification("orderFailed", "", "error")
    /\ \A i \in 1..Len(menuWrites) :
          /\ MenuWriteAccepted(i) =>
                toast' = Notification(IF menuWrites[i].op = "add" THEN "menuAdded"
                                      ELSE "menuDeleted", "", "success")
          /\ MenuWriteRejected(i) =>
                toast' = Notification(IF menuWrites[i].op = "add" THEN "menuAddFailed"
                                      ELSE "menuDeleteFailed", "", "error")
    /\ \A i \in 1..Len(statusWrites) :
          /\ StatusWriteAccepted(i) => toast' = Notification("statusChanged", "", "success")
          /\ StatusWriteRejected(i) => toast' = Notification("statusChangeFailed", "", "error")
    /\ DismissToast => toast' = NoToast

C15_LatestNotificationShown == []C15_OneSlot /\ [][C15_NotifySteps]_vars

\* the notification of a second add call replaced the one of the first: after
\* four invocations two items are in the cart, so none was a dismissal
C15_Witness ==
    /\ steps = 4
    /\ Len(cart) = 2
    /\ toast = Notification("addedToCart", cart[2].name, "success")

\* C16 as stated: a displayed notification has been displayed for at most the
\* fixed duration since the notify call that raised it, the timer removes it
\* exactly when that duration has elapsed, and no timer is set while no
\* notification is displayed.
C16_ShownAtMostDuration == toast # NoToast => toastShown <= ToastDuration

C16_NoTimerWithoutToast == toast = NoToast => toastTimer = NoTimer

C16_Original ==
    /\ []C16_ShownAtMostDuration
    /\ []C16_NoTimerWithoutToast
    /\ [][TimerFires => toastShown = ToastDuration]_vars

----------------------------------------------------------------------------
(* Order status *)

\* C17: an accepted status update sets the status of the order with the given
\* id to the given value and leaves every other field of that order and every
\* other order as they were; invoking the update changes no order; no other
\* step changes a stored order; and for every listed order the update to each
\* status other than the displayed one can be invoked.
SameButStatus(a, b) ==
    /\ a.id = b.id /\ a.userId = b.userId /\ a.userEmail = b.userEmail
    /\ a.items = b.items /\ a.totalAmount = b.totalAmount
    /\ a.address = b.address /\ a.contact = b.contact
    /\ a.deliveryDate = b.deliveryDate /\ a.deliveryTime = b.deliveryTime
    /\ a.createdAt = b.createdAt

C17_StatusStep ==
    /\ \A i \in 1..Len(statusWrites) :
          StatusWriteAccepted(i) =>
              /\ Len(dbOrders') = Len(dbOrders)
              /\ \A k \in 1..Len(dbOrders) :
                    IF dbOrders[k].id = statusWrites[i].orderId
                    THEN /\ dbOrders'[k].status = statusWrites[i].status
                         /\ SameButStatus(dbOrders'[k], dbOrders[k])
                    ELSE dbOrders'[k] = dbOrders[k]
    /\ \A k \in 1..Len(orders), st \in Statuses :
          UpdateOrderStatus(orders[k].id, st) =>
              /\ dbOrders' = dbOrders
              /\ statusWrites' = Append(statusWrites, [orderId |-> orders[k].id, status |-> st])
    /\ (\E k \in 1..Len(dbOrders) : k <= Len(dbOrders') /\ dbOrders'[k] # dbOrders[k]) =>
          \E i \in 1..Len(statusWrites) : StatusWriteAccepted(i)

C17_AnyStatusSelectable ==
    (/\ activePage = "admin" /\ user # NoUser /\ user.isAdmin /\ adminTab = "orders"
     /\ ordersSub /\ steps < limit /\ Len(statusWrites) < MaxPending)
        => \A k \in 1..Len(orders) : \A st \in Statuses \ {orders[k].status} :
              ENABLED UpdateOrderStatus(orders[k].id, st)

C17_StatusUpdateWritesStatusOnly == []C17_AnyStatusSelectable /\ [][C17_StatusStep]_vars

\* the completed order was set back to pending: its other fields and the other order are as stored
C17_Witness ==
    /\ toast.msg = "statusChanged"
    /\ Len(dbOrders) = 2
    /\ dbOrders[1] = EarlierOrder(1, "pending")
    /\ dbOrders[2] = EarlierOrder(2, "pending")
    /\ \E k \in 1..Len(orders) : orders[k] = EarlierOrder(2, "completed")

----------------------------------------------------------------------------
(* Resubmission *)

\* C18: nothing guards the submit against resubmission: with the modal open,
\* the form filled and a user present, submit can be invoked however many
\* order writes await their result, each submit issues one more write with
\* the cart as its items, and every accepted write persists one more order,
\* whatever the cart and the modal have become.
C18_SubmitEnabled ==
    (/\ isCheckoutOpen
     /\ address # "" /\ contact # "" /\ deliveryDate # ""
     /\ user # NoUser
     /\ ordersSub = user.isAdmin
     /\ steps < limit)
        => ENABLED HandleCheckout

C18_SubmitStep ==
    /\ (HandleCheckout /\ user # NoUser) =>
          /\ Len(orderWrites') = Len(orderWrites) + 1
          /\ Last(orderWrites').items = cart
    /\ \A i \in 1..Len(orderWrites) :
          OrderWriteAccepted(i) =>
              /\ Len(dbOrders') = Len(dbOrders) + 1
              /\ Last(dbOrders').items = orderWrites[i].items
              /\ Last(dbOrders').totalAmount = orderWrites[i].totalAmount

C18_NoResubmissionGuard == []C18_SubmitEnabled /\ [][C18_SubmitStep]_vars

\* two orders with the same non-empty item snapshot and total are persisted
\* and no write is pending; the first acceptance emptied the cart, and the
\* invocations left after it do not suffice to fill it and submit again, so
\* the second submit came before the first write was resolved
C18_Witness ==
    /\ Len(dbOrders) = 2
    /\ Len(dbOrders[1].items) > 0
    /\ dbOrders[1].items = dbOrders[2].items
    /\ dbOrders[1].totalAmount = dbOrders[2].totalAmount
    /\ dbOrders[1].userId = dbOrders[2].userId
    /\ orderWrites = <<>>
    /\ cart = <<>> /\ ~isCheckoutOpen

----------------------------------------------------------------------------
(* Session end *)

\* C19: once the provider's session is gone, by logout or by itself, while a
\* profile is still present, the report of the sign-out is on its way to the
\* listener and the profile becomes absent (within the invocations the
\* behaviour is followed for); an absent profile becomes present only by the
\* listener's report of a signed-in account; an absent profile has no
\* administrator flag.
C19_SessionGone == fbUser = NoAccount /\ user # NoUser

C19_SignOutOnItsWay ==
    /\ C19_SessionGone => \E i \in 1..Len(authEvents) : authEvents[i] = NoAccount
    /\ user = NoUser => (user.isAdmin = FALSE /\ ~UserIsAdmin)

C19_SessionEndSteps ==
    /\ (HandleLogout \/ SessionLost) => fbUser' = NoAccount
    /\ (user = NoUser /\ user' # NoUser) =>
          /\ AuthStateChanged
          /\ Head(authEvents) \in Accounts
          /\ user'.uid = Head(authEvents).uid

C19_UserAbsentAfterSessionEnd ==
    /\ []C19_SignOutOnItsWay
    /\ [][C19_SessionEndSteps]_vars
    /\ (C19_SessionGone ~> (user = NoUser \/ steps = limit))

\* the administrator logged out and the listener has reported the sign-out
C19_Witness ==
    /\ toast.msg = "loggedOut"
    /\ user = NoUser
    /\ fbUser = NoAccount
    /\ authEvents = <<>>
    /\ ~ordersSub
    /\ steps < limit

----------------------------------------------------------------------------
(* Cart frame *)

\* C20: a step that takes an entry out of the cart is an explicit remove of
\* that entry's id, an accepted checkout or a logout, and a step that changes
\* the cart at all is one of these, an add or a quantity update: session
\* reports, sign-in, feed snapshots, failed checkouts, admin operations and
\* notification steps leave the cart as it is.
CartIds(c) == {c[i].id : i \in 1..Len(c)}

C20_CartStep ==
    /\ cart' # cart =>
          \/ \E item \in Documents : AddToCart(item)
          \/ \E id \in DocIds, delta \in {-1, 1} : UpdateQuantity(id, delta)
          \/ \E id \in DocIds : RemoveFromCart(id)
          \/ \E i \in 1..Len(orderWrites) : OrderWriteAccepted(i)
          \/ HandleLogout
    /\ CartIds(cart) \ CartIds(cart') # {} =>
          \/ \E id \in DocIds : RemoveFromCart(id) /\ CartIds(cart) \ CartIds(cart') = {id}
          \/ \E i \in 1..Len(orderWrites) : OrderWriteAccepted(i)
          \/ HandleLogout

C20_CartEntriesRemovedExplicitly == [][C20_CartStep]_vars

\* an item in the cart was deleted from the catalog and the catalog feed has
\* delivered the deletion: the entry is still in the cart
C20_Witness ==
    /\ \E i \in 1..Len(cart) : \A d \in dbMenus : d.id # cart[i].id
    /\ menus = SnapshotOf(dbMenus)
    /\ Len(menus) > 0

----------------------------------------------------------------------------
(* Cart edits while an order write is awaiting its result *)

\* C21 as stated: when an accepted order write clears the cart, the cart it
\* discards is exactly the item list of the order it persists: nothing added
\* to the cart, and no quantity changed, after the submit is thrown away
\* unordered.
C21_ClearingStep ==
    \A i \in 1..Len(orderWrites) :
        OrderWriteAccepted(i) => cart = orderWrites[i].items

C21_Original == [][C21_ClearingStep]_vars

----------------------------------------------------------------------------
(* Orders without items *)

\* C22 as stated: no order write is issued, and no order is persisted, with
\* an empty item list or a totalAmount of 0, whatever sequence of add,
\* remove, open checkout, submit, logout and sign-in came before.
NonEmptyOrder(o) == Len(o.items) > 0 /\ o.totalAmount > 0

C22_Original ==
    /\ \A i \in 1..Len(orderWrites) : NonEmptyOrder(orderWrites[i])
    /\ \A k \in 1..Len(dbOrders) : NonEmptyOrder(dbOrders[k])

----------------------------------------------------------------------------
(* Sign-in requests *)

\* C23: at most one signInWithPopup request is outstanding, and the
\* in-progress flag is set exactly while one is; the login button cannot be
\* used while the flag is set and a submit without a user made while it is set
\* starts no request and leaves the flag and the provider as they are; a
\* request that resolves, accepted or rejected, leaves no request outstanding
\* and the flag cleared; and whenever no user is present and the flag is clear
\* the login button is enabled.
C23_OneRequest ==
    /\ signInPending \in {0, 1}
    /\ isLoggingIn <=> signInPending = 1

C23_SignInSteps ==
    /\ HandleLogin => ~isLoggingIn /\ signInPending' = 1 /\ isLoggingIn'
    /\ (HandleCheckout /\ user = NoUser /\ isLoggingIn) =>
          UNCHANGED <<isLoggingIn, signInPending, fbUser, authEvents>>
    /\ \A acct \in Accounts :
          SignInResolved(acct) => ~isLoggingIn' /\ signInPending' = 0
    /\ \A code \in LoginErrorCodes :
          SignInRejected(code) => ~isLoggingIn' /\ signInPending' = 0

C23_LoginPossible ==
    (user = NoUser /\ ~isLoggingIn /\ ~ordersSub /\ steps < limit)
        => ENABLED HandleLogin

C23_OneSignInAtATime ==
    /\ []C23_OneRequest
    /\ [][C23_SignInSteps]_vars
    /\ []C23_LoginPossible

\* a request was rejected, the login button was used again, and with the new
\* request outstanding the checkout modal can be submitted without a user
C23_Witness ==
    /\ toast.msg = "loginPopupClosed"
    /\ user = NoUser
    /\ isLoggingIn /\ signInPending = 1
    /\ isCheckoutOpen
    /\ ~SubmitDisabled(address, contact, deliveryDate)
    /\ steps < limit

====
